---- MODULE Spec2Model ----
(***************************************************************************)
(* qc2md.py: conversion of an mpvQC report to a markdown checklist, with   *)
(* optional dialogue references looked up in a subtitle file.              *)
(*                                                                         *)
(* Times are integers in centiseconds.  A timestamp string "HH:MM:SS" is   *)
(* a sequence of tokens (the result of split(":")), each token a sequence  *)
(* of decimal digits.  A python dict is a sequence of [key, notes] pairs   *)
(* in insertion order.  Output lines are records tagged by `kind`.         *)
(***************************************************************************)
EXTENDS Integers, Sequences, FiniteSets, TLC

VARIABLES
    args,             \* argparse.Namespace: refs, chrono, dialogue, ref_format, pick_refs
    repo,             \* environment: is the report inside a git repository with a commit
    dialogue_events,  \* main: None or the list of dialogue lines
    githash,          \* main: commit id
    artifact,         \* main: artifact_filename
    report,           \* parse_report(lines): list of QCEntry
    entries,          \* categorize_entries(...): dict group -> list of QCEntry
    ordered_map,      \* write_markdown: sorted(entries.items())
    gi,               \* write_markdown: position of the outer loop (group)
    ni,               \* write_markdown: position of the inner loop (entry), 0 = before the header
    pick_refs,        \* write_markdown: the local pick_refs flag
    matches,          \* write_markdown: matches of the current entry / picker options
    selection,        \* ReferencePickerApp.selection
    md,               \* lines written to the output file
    outFile,          \* "untouched", "open" or "closed"
    pc,               \* position of the run
    error,            \* which exception ended the run, "" if none
    log,              \* history: one record per rendered annotation
    cancelled         \* history: the user has cancelled the picker in this run

vars == <<args, repo, dialogue_events, githash, artifact, report, entries,
          ordered_map, gi, ni, pick_refs, matches, selection, md, outFile,
          pc, error, log, cancelled>>

-----------------------------------------------------------------------------
(* Bounds *)

MaxReport == 2        \* annotations in a report of a whole run
MaxLines == 2         \* events in a subtitle file
MaxCatEntries == 3    \* annotations given to categorize_entries alone
MaxDoc == 2           \* dialogue lines given to get_dialogue_lines_at_time alone

-----------------------------------------------------------------------------
(* Program constants *)

STANDALONE_CATEGORIES_NoEncode == {"Typeset", "Timing"}

STANDALONE_CATEGORIES == {"Typeset", "Timing", "Encode"}

NON_DIALOGUE_CATEGORIES_NoEncode == {"Typeset"}

NON_DIALOGUE_CATEGORIES == {"Typeset", "Encode"}

SecondsPerDay == 86400

CsPerSecond == 100

\* Python's None where a string is expected, and where an index is expected
None == "None"

NoneIdx == -1

\* Optional list: None, or a list
NoneList == [isNone |-> TRUE, val |-> <<>>]

SomeList(l) == [isNone |-> FALSE, val |-> l]

\* Python truthiness of an optional list (None and [] are both falsy)
TruthyList(o) == ~o.isNone /\ Len(o.val) > 0

\* Python truthiness of an optional string
TruthyStr(s) == s # None /\ s # ""

-----------------------------------------------------------------------------
(* str comparison on the group keys that occur (code point order) *)

KeyOrder == <<"Encode", "Phrasing", "Script", "Timing", "Typeset">>

KeyRank(k) == CHOOSE i \in 1..Len(KeyOrder) : KeyOrder[i] = k

RECURSIVE InsertSorted(_, _)
InsertSorted(item, sorted) ==
    IF sorted = <<>> THEN <<item>>
    ELSE IF KeyRank(item.key) < KeyRank(Head(sorted).key)
         THEN <<item>> \o sorted
         ELSE <<Head(sorted)>> \o InsertSorted(item, Tail(sorted))

RECURSIVE SortedItems(_)
SortedItems(items) ==
    IF items = <<>> THEN <<>>
    ELSE InsertSorted(items[Len(items)], SortedItems(SubSeq(items, 1, Len(items) - 1)))

-----------------------------------------------------------------------------
(* categorize_entries *)

QCEntry(time, category, text) == [time |-> time, category |-> category, text |-> text]

GroupOf(entry, group_script_entries) ==
    IF group_script_entries
    THEN (IF entry.category \in STANDALONE_CATEGORIES THEN entry.category ELSE "Script")
    ELSE entry.category

HasKey(data, group) == \E i \in 1..Len(data) : data[i].key = group

DictAppend_Replace(data, group, entry) ==
    IF HasKey(data, group)
    THEN [i \in 1..Len(data) |->
            IF data[i].key = group THEN [data[i] EXCEPT !.notes = <<entry>>] ELSE data[i]]
    ELSE Append(data, [key |-> group, notes |-> <<entry>>])

\* if group not in data: data[group] = [] ; data[group].append(entry)
DictAppend(data, group, entry) ==
    IF HasKey(data, group)
    THEN [i \in 1..Len(data) |->
            IF data[i].key = group THEN [data[i] EXCEPT !.notes = Append(@, entry)] ELSE data[i]]
    ELSE Append(data, [key |-> group, notes |-> <<entry>>])

RECURSIVE CategorizeLoop(_, _, _)
CategorizeLoop(data, rest, group_script_entries) ==
    IF rest = <<>> THEN data
    ELSE CategorizeLoop(DictAppend(data, GroupOf(Head(rest), group_script_entries), Head(rest)),
                        Tail(rest), group_script_entries)

categorize_entries(ents, group_script_entries) ==
    CategorizeLoop(<<>>, ents, group_script_entries)

-----------------------------------------------------------------------------
(* get_dialogue_lines_at_time *)

\* int(x) on a token of decimal digits
RECURSIVE IntOf(_)
IntOf(tok) ==
    IF tok = <<>> THEN 0
    ELSE 10 * IntOf(SubSeq(tok, 1, Len(tok) - 1)) + tok[Len(tok)]

\* h, m, s = [int(x) for x in timestamp.split(":")] raises ValueError unless
\* there are exactly three tokens and int() accepts each
ValidTime(timestamp) ==
    /\ Len(timestamp) = 3
    /\ \A i \in 1..Len(timestamp) : Len(timestamp[i]) > 0

\* timedelta(hours=h, minutes=m, seconds=s), as a total in centiseconds
timedelta(h, m, s) == (h * 3600 + m * 60 + s) * CsPerSecond

\* timedelta.seconds: the seconds field of the normalised (days, seconds, microseconds)
SecondsField(td) == (td \div CsPerSecond) % SecondsPerDay

WindowStart(timestamp) ==
    timedelta(IntOf(timestamp[1]), IntOf(timestamp[2]), IntOf(timestamp[3]))

\* end = timedelta(seconds=start.seconds + 1)
WindowEnd(timestamp) == timedelta(0, 0, SecondsField(WindowStart(timestamp)) + 1)

Overlaps(line, start, end) == (line.start < end) /\ (line.end > start)

get_dialogue_lines_at_time(doc, timestamp) ==
    LET start == WindowStart(timestamp)
        end == WindowEnd(timestamp)
    IN SelectSeq(doc, LAMBDA line : Overlaps(line, start, end))

-----------------------------------------------------------------------------
(* load_dialogue_file *)

Event(kind, pos, start, end, text) ==
    [kind |-> kind, pos |-> pos, start |-> start, end |-> end, text |-> text]

\* isinstance(line, ass.line.Dialogue) and not "\\pos" in line.text
IsPlainDialogue(ev) == ev.kind = "Dialogue" /\ ~ev.pos

load_dialogue_file(file) == SelectSeq(file, IsPlainDialogue)

-----------------------------------------------------------------------------
(* Output lines of write_markdown *)

ArtifactLine(name) == [kind |-> "artifact", name |-> name]

CommitLine(hash) == [kind |-> "commit", hash |-> hash]

BlankLine == [kind |-> "blank"]

SectionLine(group) == [kind |-> "section", group |-> group]

PlaceholderLine == [kind |-> "placeholder"]

\* f"> {ref.dump() if ref_format == "full" else ref.text}\n"
RefLine(ref, ref_format) ==
    IF ref_format = "full"
    THEN [kind |-> "ref", format |-> "full", dump |-> ref]
    ELSE [kind |-> "ref", format |-> "text", text |-> ref.text]

RefLines(refs, ref_format) == [i \in 1..Len(refs) |-> RefLine(refs[i], ref_format)]

\* Group != category when --chrono is supplied
ChecklistLine(group, entry) ==
    IF group # entry.category
    THEN [kind |-> "checkcat", time |-> entry.time, category |-> entry.category,
          text |-> entry.text]
    ELSE [kind |-> "check", time |-> entry.time, text |-> entry.text]

HeaderLines(artifact_filename, hash) ==
    (IF TruthyStr(artifact_filename) THEN <<ArtifactLine(artifact_filename)>> ELSE <<>>)
    \o (IF TruthyStr(hash) THEN <<CommitLine(hash)>> ELSE <<>>)
    \o (IF TruthyStr(artifact_filename) \/ TruthyStr(hash) THEN <<BlankLine>> ELSE <<>>)

IsReferenceLine(l) == l.kind \in {"ref", "placeholder"}

IsChecklistLine(l) == l.kind \in {"check", "checkcat"}

-----------------------------------------------------------------------------
(* Inputs of a run *)

Tok(n) == <<n \div 10, n % 10>>

TS(h, m, s) == <<Tok(h), Tok(m), Tok(s)>>

\* "00:00:01" and "00:00:09"
RunTimes == {TS(0, 0, 1), TS(0, 0, 9)}

\* "02:18": LINE_PATTERN accepts any text between the first brackets
MalformedTime == <<Tok(2), Tok(18)>>

RunCategories == {"Encode", "Phrasing", "Timing", "Typeset"}

RunEntries ==
    {QCEntry(t, c, "note") : t \in RunTimes, c \in RunCategories}
    \cup {QCEntry(MalformedTime, c, "note") : c \in {"Phrasing", "Typeset"}}

Reports == UNION {[1..n -> RunEntries] : n \in 0..MaxReport}

\* A line on screen during seconds 0 to 9, a line on screen during second 1
\* only, a positioned line and a comment
RunEvents ==
    { Event("Dialogue", FALSE, 50, 1000, "a"),
      Event("Dialogue", FALSE, 100, 150, "b"),
      Event("Dialogue", TRUE, 100, 150, "p"),
      Event("Comment", FALSE, 100, 150, "k") }

SubtitleFiles == UNION {[1..n -> RunEvents] : n \in 0..MaxLines}

Artifacts == {"", "ep01.mkv"}

-----------------------------------------------------------------------------
(* main *)

Init ==
    /\ args \in [refs : BOOLEAN, chrono : BOOLEAN, dialogue : {"none", "missing", "file"},
                 ref_format : {"full", "text"}, pick_refs : BOOLEAN]
    /\ repo \in {"commit", "norepo"}
    /\ dialogue_events = NoneList
    /\ githash = None
    /\ artifact = None
    /\ report = <<>>
    /\ entries = <<>>
    /\ ordered_map = <<>>
    /\ gi = 0
    /\ ni = 0
    /\ pick_refs = args.pick_refs
    /\ matches = <<>>
    /\ selection = 0
    /\ md = <<>>
    /\ outFile = "untouched"
    /\ pc = "start"
    /\ error = ""
    /\ log = <<>>
    /\ cancelled = FALSE

\* An uncaught exception ends the run; a `with open(...)` block closes its file
Raise(e) ==
    /\ pc' = "crashed"
    /\ error' = e
    /\ outFile' = IF outFile = "open" THEN "closed" ELSE outFile

\* dialogue_events = load_dialogue_file(...) if (args.dialogue and exists and args.refs) else None
LoadDialogue ==
    /\ pc = "start"
    /\ IF args.dialogue = "file" /\ args.refs
       THEN \/ \E file \in SubtitleFiles :
                 /\ dialogue_events' = SomeList(load_dialogue_file(file))
                 /\ pc' = "git"
                 /\ UNCHANGED <<error, outFile>>
            \/ /\ Raise("dialogue")          \* open() or ass.parse() raises
               /\ UNCHANGED dialogue_events
       ELSE /\ dialogue_events' = NoneList
            /\ pc' = "git"
            /\ UNCHANGED <<error, outFile>>
    /\ UNCHANGED <<args, repo, githash, artifact, report, entries, ordered_map, gi, ni,
                   pick_refs, matches, selection, md, log, cancelled>>

\* repo = git.Repo(..., search_parent_directories=True); githash = repo.head.object.hexsha
GitLookup ==
    /\ pc = "git"
    /\ IF repo = "commit"
       THEN /\ githash' = "c0ffee"
            /\ pc' = "load"
            /\ UNCHANGED <<error, outFile>>
       ELSE /\ Raise("git")                  \* InvalidGitRepositoryError / ValueError
            /\ UNCHANGED githash
    /\ UNCHANGED <<args, repo, dialogue_events, artifact, report, entries, ordered_map, gi, ni,
                   pick_refs, matches, selection, md, log, cancelled>>

\* (artifact_filename, lines) = load_report(report_filename); parse_report(lines)
LoadReport ==
    /\ pc = "load"
    /\ \/ \E a \in Artifacts, r \in Reports :
             /\ artifact' = a
             /\ report' = r
             /\ pc' = "parsed"
             /\ UNCHANGED <<error, outFile>>
       \/ /\ Raise("report")                 \* unreadable, no path line, no [DATA] line
          /\ UNCHANGED <<artifact, report>>
    /\ UNCHANGED <<args, repo, dialogue_events, githash, entries, ordered_map, gi, ni,
                   pick_refs, matches, selection, md, log, cancelled>>

\* entries = categorize_entries(parse_report(lines), group_script_entries=args.chrono)
Categorize ==
    /\ pc = "parsed"
    /\ entries' = categorize_entries(report, args.chrono)
    /\ pc' = "categorized"
    /\ UNCHANGED <<args, repo, dialogue_events, githash, artifact, report, ordered_map, gi, ni,
                   pick_refs, matches, selection, md, outFile, error, log, cancelled>>

-----------------------------------------------------------------------------
(* write_markdown *)

CurGroup == ordered_map[gi].key

CurEntry == ordered_map[gi].notes[ni]

\* open(output_filename, mode="w"), the header, ordered_map = sorted(entries.items())
OpenOutput ==
    /\ pc = "categorized"
    /\ outFile' = "open"
    /\ md' = HeaderLines(artifact, githash)
    /\ ordered_map' = SortedItems(entries)
    /\ pick_refs' = args.pick_refs
    /\ gi' = 1
    /\ ni' = 0
    /\ pc' = "render"
    /\ UNCHANGED <<args, repo, dialogue_events, githash, artifact, report, entries,
                   matches, selection, error, log, cancelled>>

\* md.write(f"## {group}\n")
BeginSection ==
    /\ pc = "render"
    /\ gi <= Len(ordered_map)
    /\ ni = 0
    /\ md' = Append(md, SectionLine(CurGroup))
    /\ ni' = 1
    /\ UNCHANGED <<args, repo, dialogue_events, githash, artifact, report, entries,
                   ordered_map, gi, pick_refs, matches, selection, outFile, pc, error,
                   log, cancelled>>

LogRecord(looked, m, picker, result, n) ==
    [entry |-> CurEntry, group |-> CurGroup, at |-> Len(md), flag |-> pick_refs,
     looked |-> looked, matches |-> m, picker |-> picker, result |-> result, n |-> n]

\* The reference lines of one annotation, then its checklist line
Emit(refLines, looked, m, picker, result) ==
    /\ md' = md \o refLines \o <<ChecklistLine(CurGroup, CurEntry)>>
    /\ log' = Append(log, LogRecord(looked, m, picker, result, Len(refLines) + 1))
    /\ ni' = ni + 1
    /\ pc' = "render"

\* One iteration of `for entry in notes`, up to the call of pick_references
RenderEntry ==
    /\ pc = "render"
    /\ gi <= Len(ordered_map)
    /\ ni >= 1
    /\ ni <= Len(ordered_map[gi].notes)
    /\ IF args.refs /\ CurGroup \notin NON_DIALOGUE_CATEGORIES
       THEN IF TruthyList(dialogue_events)
            THEN IF ~ValidTime(CurEntry.time)
                 THEN /\ Raise("timestamp")          \* ValueError in get_dialogue_lines_at_time
                      /\ UNCHANGED <<md, log, ni, matches, selection>>
                 ELSE LET m == get_dialogue_lines_at_time(dialogue_events.val, CurEntry.time)
                      IN IF ~pick_refs \/ Len(m) = 1
                         THEN /\ Emit(RefLines(m, args.ref_format), TRUE, m, FALSE, NoneIdx)
                              /\ UNCHANGED <<matches, selection, outFile, error>>
                         ELSE IF Len(m) > 1
                              THEN /\ matches' = m   \* pick_references(entry, matches)
                                   /\ selection' = 0
                                   /\ pc' = "picking"
                                   /\ UNCHANGED <<md, log, ni, outFile, error>>
                              ELSE /\ Emit(<<>>, TRUE, m, FALSE, NoneIdx)
                                   /\ UNCHANGED <<matches, selection, outFile, error>>
            ELSE /\ Emit(<<PlaceholderLine>>, FALSE, <<>>, FALSE, NoneIdx)
                 /\ UNCHANGED <<matches, selection, outFile, error>>
       ELSE /\ Emit(<<>>, FALSE, <<>>, FALSE, NoneIdx)
            /\ UNCHANGED <<matches, selection, outFile, error>>
    /\ UNCHANGED <<args, repo, dialogue_events, githash, artifact, report, entries,
                   ordered_map, gi, pick_refs, cancelled>>

\* md.write("\n") after the last entry of a group
EndSection ==
    /\ pc = "render"
    /\ gi <= Len(ordered_map)
    /\ ni = Len(ordered_map[gi].notes) + 1
    /\ md' = Append(md, BlankLine)
    /\ gi' = gi + 1
    /\ ni' = 0
    /\ UNCHANGED <<args, repo, dialogue_events, githash, artifact, report, entries,
                   ordered_map, pick_refs, matches, selection, outFile, pc, error,
                   log, cancelled>>

\* The end of the `with` block
CloseOutput ==
    /\ pc = "render"
    /\ gi > Len(ordered_map)
    /\ outFile' = "closed"
    /\ pc' = "done"
    /\ UNCHANGED <<args, repo, dialogue_events, githash, artifact, report, entries,
                   ordered_map, gi, ni, pick_refs, matches, selection, md, error,
                   log, cancelled>>

-----------------------------------------------------------------------------
(* pick_references and ReferencePickerApp *)

\* self.selection = (self.selection - 1) % len(self.options)
SelectionUp(sel, n) == (sel - 1) % n

\* self.selection = (self.selection + 1) % len(self.options)
SelectionDown(sel, n) == (sel + 1) % n

PickResult_Falsy(options, result) ==
    IF result # NoneIdx /\ result # 0 THEN <<options[result + 1]>> ELSE <<>>

\* return options[result] if result is not None else None  (a list of 0 or 1 lines)
PickResult(options, result) ==
    IF result # NoneIdx THEN <<options[result + 1]>> ELSE <<>>

FlagAfterPick_Keep(flag, picked) == flag

\* pick_refs = False when the user cancelled
FlagAfterPick(flag, picked) == IF picked = <<>> THEN FALSE ELSE flag

KeyUp ==
    /\ pc = "picking"
    /\ selection' = SelectionUp(selection, Len(matches))
    /\ UNCHANGED <<args, repo, dialogue_events, githash, artifact, report, entries,
                   ordered_map, gi, ni, pick_refs, matches, md, outFile, pc, error,
                   log, cancelled>>

KeyDown ==
    /\ pc = "picking"
    /\ selection' = SelectionDown(selection, Len(matches))
    /\ UNCHANGED <<args, repo, dialogue_events, githash, artifact, report, entries,
                   ordered_map, gi, ni, pick_refs, matches, md, outFile, pc, error,
                   log, cancelled>>

\* The rest of the loop body of write_markdown once app.run() has returned `result`
AfterPicker(result) ==
    LET picked == PickResult(matches, result)
    IN /\ IF picked # <<>>
          THEN Emit(<<RefLine(picked[1], args.ref_format)>>, TRUE, matches, TRUE, result)
          ELSE Emit(RefLines(matches, args.ref_format), TRUE, matches, TRUE, result)
       /\ pick_refs' = FlagAfterPick(pick_refs, picked)
       /\ cancelled' = (cancelled \/ result = NoneIdx)

\* Keys.Enter: self.exit(self.selection)
KeyEnter ==
    /\ pc = "picking"
    /\ AfterPicker(selection)
    /\ UNCHANGED <<args, repo, dialogue_events, githash, artifact, report, entries,
                   ordered_map, gi, matches, selection, outFile, error>>

\* The app is quit without a result (ctrl+q / ctrl+c): app.run() returns None
PickerCancel ==
    /\ pc = "picking"
    /\ AfterPicker(NoneIdx)
    /\ UNCHANGED <<args, repo, dialogue_events, githash, artifact, report, entries,
                   ordered_map, gi, matches, selection, outFile, error>>

\* pick_references raises (textual cannot be imported, no terminal)
PickerFail ==
    /\ pc = "picking"
    /\ Raise("picker")
    /\ UNCHANGED <<args, repo, dialogue_events, githash, artifact, report, entries,
                   ordered_map, gi, ni, pick_refs, matches, selection, md, log, cancelled>>

-----------------------------------------------------------------------------

Next ==
    \/ LoadDialogue
    \/ GitLookup
    \/ LoadReport
    \/ Categorize
    \/ OpenOutput
    \/ BeginSection
    \/ RenderEntry
    \/ EndSection
    \/ CloseOutput
    \/ KeyUp
    \/ KeyDown
    \/ KeyEnter
    \/ PickerCancel
    \/ PickerFail

Spec == Init /\ [][Next]_vars

TypeOK ==
    /\ pc \in {"start", "git", "load", "parsed", "categorized", "render", "picking",
               "done", "crashed"}
    /\ outFile \in {"untouched", "open", "closed"}
    /\ selection \in Int

-----------------------------------------------------------------------------
(* get_dialogue_lines_at_time on its own: a timestamp and a list of lines *)

LookupTimes == {TS(h, m, sec) : h \in {0, 23, 24}, m \in {0, 59}, sec \in {0, 1, 59}}

LookupPoints == {0, 50, 100, 200, 8639950, 8640000, 8640050, 8640100}

LookupLines ==
    {Event("Dialogue", FALSE, a, b, "x") : <<a, b>> \in {p \in LookupPoints \X LookupPoints : p[1] < p[2]}}

LookupDocs == UNION {[1..n -> LookupLines] : n \in 0..MaxDoc}

Idle ==
    /\ args = [refs |-> TRUE, chrono |-> FALSE, dialogue |-> "file", ref_format |-> "full",
               pick_refs |-> FALSE]
    /\ repo = "commit"
    /\ githash = None
    /\ artifact = None
    /\ entries = <<>>
    /\ ordered_map = <<>>
    /\ gi = 0
    /\ ni = 0
    /\ pick_refs = FALSE
    /\ matches = <<>>
    /\ selection = 0
    /\ md = <<>>
    /\ outFile = "untouched"
    /\ error = ""
    /\ log = <<>>
    /\ cancelled = FALSE

InitLookup ==
    /\ Idle
    /\ dialogue_events \in {SomeList(d) : d \in LookupDocs}
    /\ report \in {<<QCEntry(t, "Phrasing", "note")>> : t \in LookupTimes}
    /\ pc = "lookup"

Lookup ==
    /\ pc = "lookup"
    /\ matches' = get_dialogue_lines_at_time(dialogue_events.val, report[1].time)
    /\ pc' = "looked"
    /\ UNCHANGED <<args, repo, dialogue_events, githash, artifact, report, entries,
                   ordered_map, gi, ni, pick_refs, selection, md, outFile, error,
                   log, cancelled>>

NextLookup == Lookup

SpecLookup == InitLookup /\ [][NextLookup]_vars

-----------------------------------------------------------------------------
(* categorize_entries on its own: a list of annotations and a mode *)

CatCategories == {"Encode", "Phrasing", "Script", "Timing", "Typeset"}

CatEntries == {QCEntry(TS(0, 0, 1), c, x) : c \in CatCategories, x \in {"a", "b"}}

CatReports == UNION {[1..n -> CatEntries] : n \in 0..MaxCatEntries}

InitCat ==
    /\ args \in {[refs |-> FALSE, chrono |-> c, dialogue |-> "none", ref_format |-> "full",
                  pick_refs |-> FALSE] : c \in BOOLEAN}
    /\ repo = "commit"
    /\ dialogue_events = NoneList
    /\ githash = None
    /\ artifact = None
    /\ report \in CatReports
    /\ entries = <<>>
    /\ ordered_map = <<>>
    /\ gi = 0
    /\ ni = 0
    /\ pick_refs = FALSE
    /\ matches = <<>>
    /\ selection = 0
    /\ md = <<>>
    /\ outFile = "untouched"
    /\ pc = "parsed"
    /\ error = ""
    /\ log = <<>>
    /\ cancelled = FALSE

NextCat == Categorize

SpecCat == InitCat /\ [][NextCat]_vars

-----------------------------------------------------------------------------
(* Vocabulary of the properties *)

\* The lines written for the annotation of log record r: its reference lines
\* and its checklist line
LinesOf(r) == SubSeq(md, r.at + 1, r.at + r.n)

ReferenceLinesOf(r) == SubSeq(md, r.at + 1, r.at + r.n - 1)

\* The Match Set of an annotation: the dialogue intervals overlapping the
\* 1-second window anchored at its timestamp, as the dialogue index answers it
MatchSet(entry) == get_dialogue_lines_at_time(dialogue_events.val, entry.time)

EndsWithOwnChecklist(r) ==
    /\ r.n >= 1
    /\ r.at + r.n <= Len(md)
    /\ IsChecklistLine(md[r.at + r.n])
    /\ md[r.at + r.n].time = r.entry.time
    /\ md[r.at + r.n].text = r.entry.text

IsCancel(r) == r.picker /\ r.result = NoneIdx

-----------------------------------------------------------------------------
\* C1: for every HH:MM:SS timestamp t (any hour value) and every interval
\* [s, e), the interval is in the returned Match Set iff s < t + 1 second and
\* e > t, and the returned list keeps the source order.
C1_MatchIffOverlap ==
    pc = "looked" =>
        LET ts == report[1].time
            t == (IntOf(ts[1]) * 3600 + IntOf(ts[2]) * 60 + IntOf(ts[3])) * 100
        IN matches = SelectSeq(dialogue_events.val,
                               LAMBDA l : l.start < t + 100 /\ l.end > t)

-----------------------------------------------------------------------------
\* C2: an annotation whose category is Typeset or Encode gets no reference
\* line of any kind before its checklist line (flat or collapsed mode, any
\* match count, dialogue data or not, any picker policy), and the picker is
\* never invoked for it.
C2_NoReferenceForNonDialogue ==
    /\ \A k \in 1..Len(log) :
           log[k].entry.category \in {"Typeset", "Encode"} =>
               /\ log[k].n = 1
               /\ EndsWithOwnChecklist(log[k])
               /\ \A j \in 1..Len(LinesOf(log[k])) : ~IsReferenceLine(LinesOf(log[k])[j])
               /\ ~log[k].picker
    /\ pc = "picking" => CurEntry.category \notin {"Typeset", "Encode"}

\* An Encode annotation of a collapsed-mode run with references requested,
\* the picker enabled and two dialogue lines on screen at its timestamp
C2_Witness ==
    /\ pc = "done"
    /\ args.refs /\ args.chrono /\ pick_refs
    /\ \E k \in 1..Len(log) :
           /\ log[k].entry.category = "Encode"
           /\ TruthyList(dialogue_events)
           /\ ValidTime(log[k].entry.time)
           /\ Len(MatchSet(log[k].entry)) > 1

-----------------------------------------------------------------------------
\* C3 (as stated): the flag only changes from enabled to disabled; once the
\* user has cancelled the picker it is never invoked again, and every later
\* annotation with more than one match gets a reference line for every
\* candidate.
C3_AfterCancelAll(eligibleOnly) ==
    /\ cancelled => pc # "picking"
    /\ \A j \in 1..Len(log) : \A k \in 1..Len(log) :
           (/\ IsCancel(log[j])
            /\ k > j
            /\ ValidTime(log[k].entry.time)
            /\ Len(MatchSet(log[k].entry)) > 1
            /\ (eligibleOnly => log[k].entry.category \notin {"Typeset", "Encode"}))
           => /\ ~log[k].picker
              /\ ReferenceLinesOf(log[k]) = RefLines(MatchSet(log[k].entry), args.ref_format)

C3_Original ==
    /\ [][~pick_refs => ~pick_refs']_vars
    /\ [](C3_AfterCancelAll(FALSE))

\* C3 (amended): as stated, for every later annotation with more than one
\* match whose category is not Typeset or Encode.
C3_DowngradeIsOneWay ==
    /\ [][~pick_refs => ~pick_refs']_vars
    /\ [](C3_AfterCancelAll(TRUE))

\* A cancellation, then an annotation of a later section with two matches
C3_Witness ==
    \E j \in 1..Len(log) : \E k \in 1..Len(log) :
        /\ IsCancel(log[j])
        /\ k > j
        /\ log[k].group # log[j].group
        /\ log[k].entry.category \notin {"Typeset", "Encode"}
        /\ ValidTime(log[k].entry.time)
        /\ Len(MatchSet(log[k].entry)) > 1

-----------------------------------------------------------------------------
\* C4: the picker is invoked only when disambiguation is enabled and the
\* Match Set has more than one interval; the selection index stays within
\* 0..n-1 under Up/Down; a selection emits exactly the Match Set element at
\* the selection index, a cancellation emits every candidate in source order.
C4_PickerContract ==
    /\ pc = "picking" =>
           /\ pick_refs
           /\ matches = MatchSet(CurEntry)
           /\ Len(matches) > 1
           /\ selection \in 0..(Len(matches) - 1)
    /\ \A k \in 1..Len(log) :
           log[k].picker =>
               /\ log[k].flag
               /\ log[k].matches = MatchSet(log[k].entry)
               /\ Len(log[k].matches) > 1
               /\ EndsWithOwnChecklist(log[k])
               /\ IF log[k].result = NoneIdx
                  THEN ReferenceLinesOf(log[k]) = RefLines(log[k].matches, args.ref_format)
                  ELSE /\ log[k].result \in 0..(Len(log[k].matches) - 1)
                       /\ ReferenceLinesOf(log[k])
                            = <<RefLine(log[k].matches[log[k].result + 1], args.ref_format)>>

\* The user has moved the selection off the first candidate and pressed Enter
\* for one annotation, and pressed Enter on the first candidate for another
C4_Witness ==
    /\ \E k \in 1..Len(log) : log[k].picker /\ log[k].result = 1
    /\ \E k \in 1..Len(log) : log[k].picker /\ log[k].result = 0

-----------------------------------------------------------------------------
\* C5: for an annotation eligible for reference lookup with dialogue data
\* available, when disambiguation is disabled or the Match Set has exactly one
\* interval, exactly one reference line per interval of the Match Set is
\* written, in source order, immediately before the single checklist line,
\* and the picker is not invoked.
C5_OneLinePerMatch ==
    \A k \in 1..Len(log) :
        (/\ args.refs
         /\ log[k].entry.category \notin {"Typeset", "Encode"}
         /\ ~dialogue_events.isNone
         /\ ValidTime(log[k].entry.time)
         /\ (~log[k].flag \/ Len(MatchSet(log[k].entry)) = 1))
        => /\ ~log[k].picker
           /\ EndsWithOwnChecklist(log[k])
           /\ ReferenceLinesOf(log[k]) = RefLines(MatchSet(log[k].entry), args.ref_format)

-----------------------------------------------------------------------------
\* C6: the empty placeholder line is written only when dialogue data was not
\* supplied at all; when a dialogue source was supplied and loaded (also one
\* with zero dialogue intervals after filtering), an annotation with zero
\* matches gets no reference line.
C6_PlaceholderOnlyWithoutData ==
    \A k \in 1..Len(log) :
        (args.refs /\ args.dialogue = "file") =>
            /\ \A j \in 1..Len(LinesOf(log[k])) : LinesOf(log[k])[j] # PlaceholderLine
            /\ (ValidTime(log[k].entry.time) /\ Len(MatchSet(log[k].entry)) = 0)
                   => log[k].n = 1

-----------------------------------------------------------------------------
\* C7: a fatal error aborts before the output file is opened or written.
C7_NoPartialOutput ==
    pc = "crashed" => (outFile = "untouched" /\ md = <<>>)

-----------------------------------------------------------------------------
\* C10: when the report is not inside a repository the run still succeeds
\* and writes the markdown file, without the commit line and with the
\* artifact line and the blank line after it.
C10_NoRepositoryTolerated ==
    repo = "norepo" =>
        /\ error # "git"
        /\ (pc = "done" /\ TruthyStr(artifact)) =>
               (/\ Len(md) >= 2
                /\ md[1] = ArtifactLine(artifact)
                /\ md[2] = BlankLine)

-----------------------------------------------------------------------------
\* C8: categorize_entries partitions the annotations: every annotation is in
\* exactly one group exactly once, each group keeps the input order, no group
\* is empty; the key is the category verbatim in flat mode, and in collapsed
\* mode the category when it is Typeset, Timing or Encode and "Script"
\* otherwise.
C8_ExpectedKey(e) ==
    IF args.chrono
    THEN (IF e.category \in {"Typeset", "Timing", "Encode"} THEN e.category ELSE "Script")
    ELSE e.category

RECURSIVE C8_TotalNotes(_)
C8_TotalNotes(data) ==
    IF data = <<>> THEN 0 ELSE Len(Head(data).notes) + C8_TotalNotes(Tail(data))

C8_Partition ==
    pc = "categorized" =>
        /\ \A i \in 1..Len(entries) : \A j \in 1..Len(entries) :
               entries[i].key = entries[j].key => i = j
        /\ \A i \in 1..Len(entries) :
               /\ entries[i].notes # <<>>
               /\ entries[i].notes
                    = SelectSeq(report, LAMBDA e : C8_ExpectedKey(e) = entries[i].key)
        /\ \A k \in 1..Len(report) :
               \E i \in 1..Len(entries) : entries[i].key = C8_ExpectedKey(report[k])
        /\ C8_TotalNotes(entries) = Len(report)
        /\ args.chrono =>
               \A i \in 1..Len(entries) :
                   entries[i].key \in {"Typeset", "Timing", "Encode", "Script"}

\* Collapsed mode, three annotations: two of different categories merged into
\* "Script" around one that keeps its own group
C8_Witness ==
    /\ pc = "categorized"
    /\ args.chrono
    /\ Len(report) = 3
    /\ report[1].category = "Phrasing"
    /\ report[2].category = "Timing"
    /\ report[3].category = "Script"
    /\ report[1].text # report[3].text
    /\ Len(entries) = 2
    /\ entries[1].key = "Script"
    /\ Len(entries[1].notes) = 2

-----------------------------------------------------------------------------
(* The document of a run in which dialogue lookup was never requested *)

RECURSIVE PlainSections(_)
PlainSections(items) ==
    IF items = <<>> THEN <<>>
    ELSE <<SectionLine(Head(items).key)>>
         \o [k \in 1..Len(Head(items).notes) |->
                ChecklistLine(Head(items).key, Head(items).notes[k])]
         \o <<BlankLine>>
         \o PlainSections(Tail(items))

PlainDocument == HeaderLines(artifact, githash) \o PlainSections(SortedItems(entries))

\* C9 (as stated): rendering with no dialogue index gives the document of a
\* run where lookup was never requested, with no reference line before any
\* checklist line, also when references were requested.
C9_Original ==
    (pc = "done" /\ dialogue_events.isNone) =>
        /\ md = PlainDocument
        /\ \A i \in 1..Len(md) : ~IsReferenceLine(md[i])

\* C9 (amended): with no dialogue index the output is the never-requested
\* document when references were not requested; when they were requested it
\* is that document with one empty placeholder line inserted immediately
\* before the checklist line of every annotation whose category is not
\* Typeset or Encode.
C9_PlaceholdersOnly ==
    (pc = "done" /\ dialogue_events.isNone) =>
        /\ ~args.refs => md = PlainDocument
        /\ SelectSeq(md, LAMBDA l : l # PlaceholderLine) = PlainDocument
        /\ \A k \in 1..Len(log) :
               /\ EndsWithOwnChecklist(log[k])
               /\ ReferenceLinesOf(log[k])
                    = IF args.refs /\ log[k].entry.category \notin {"Typeset", "Encode"}
                      THEN <<PlaceholderLine>> ELSE <<>>

\* References requested, the dialogue file missing, one annotation that gets
\* the placeholder and one that does not
C9_Witness ==
    /\ pc = "done"
    /\ dialogue_events.isNone
    /\ args.refs
    /\ args.dialogue = "missing"
    /\ \E k \in 1..Len(log) : log[k].entry.category = "Phrasing" /\ log[k].n = 2
    /\ \E k \in 1..Len(log) : log[k].entry.category = "Encode" /\ log[k].n = 1

====
